---- MODULE Spec2Model ----
\* Model of the E-AC-3 7.1 Atmos channel-map fixer (src/main.py): the frame
\* reader, the bit accessors, the CRC16 engine, the E-AC-3 header locator, the
\* chanmap position detector and the two-pass patch_file run.
EXTENDS Integers, Sequences, FiniteSets, TLC

\* ---------------------------------------------------------------- constants

DEFAULT_CHANMAP == 6656

CRC16_POLY == 32773

\* the sample limit of the discovery loop (while len(samples) < 8)
SAMPLE_LIMIT == 8

\* the default of find_chanmap_bitpos's extra_bits parameter
EXTRA_BITS == 2048

\* Python's None, as returned by find_chanmap_bitpos
None == -1

fsizetable ==
  << 64,64,80,80,96,96,112,112,128,128,160,160,192,192,224,224,256,256,320,320,384,384,448,448,512,512,640,640,768,768,896,896,
     1024,1024,1152,1152,1280,1280,0,0,0,0,0,0,0,0,0,0,0,0,0,0,0,0,0,0,0,0,0,0,0,0,0,0,
     69,70,87,88,104,105,121,122,139,140,174,175,208,209,243,244,278,279,348,349,417,418,487,488,557,558,696,697,835,836,975,976,
     1114,1115,1253,1254,1393,1394,0,0,0,0,0,0,0,0,0,0,0,0,0,0,0,0,0,0,0,0,0,0,0,0,0,0,
     96,96,120,120,144,144,168,168,192,192,240,240,288,288,336,336,384,384,480,480,576,576,672,672,768,768,960,960,1152,1152,1344,1344,
     1536,1536,1728,1728,1920,1920,0,0,0,0,0,0,0,0,0,0,0,0,0,0,0,0,0,0,0,0,0,0,0,0,0,0,
     0,0,0,0,0,0,0,0,0,0,0,0,0,0,0,0,0,0,0,0,0,0,0,0,0,0,0,0,0,0,0,0,
     0,0,0,0,0,0,0,0,0,0,0,0,0,0,0,0,0,0,0,0,0,0,0,0,0,0 >>

\* ------------------------------------------------------------ integer bits

\* a ^ b on non-negative integers (Python's ^)
RECURSIVE Xor(_, _)
Xor(a, b) ==
  IF a = 0 THEN b
  ELSE IF b = 0 THEN a
  ELSE ((a + b) % 2) + 2 * Xor(a \div 2, b \div 2)

Min(a, b) == IF a < b THEN a ELSE b

\* --------------------------------------------------------------------- CRC

\* the inner loop of crc_init: k more shift steps applied to c
RECURSIVE crc_shift(_, _)
crc_shift(c, k) ==
  IF k = 0 THEN c
  ELSE IF c >= 32768
       THEN crc_shift(Xor((c * 2) % 65536, CRC16_POLY), k - 1)
       ELSE crc_shift((c * 2) % 65536, k - 1)

\* _crc_table after crc_init() has run (main calls it before patch_file)
crc_table == [n \in 0..255 |-> crc_shift((n * 256) % 65536, 8)]

\* one iteration of the loop of crc16, for byte b
crc16_step(b, crc) ==
  Xor(crc_table[Xor(b, crc \div 256) % 256], (crc * 256) % 65536) % 65536

\* the loop of crc16 over data[lo..hi] (1-based, in order), entered with crc;
\* the range is halved, and the first half's value taken before the second
\* half starts, so that the evaluation depth stays logarithmic
RECURSIVE crc16_range(_, _, _, _)
crc16_range(data, lo, hi, crc) ==
  IF lo > hi THEN crc
  ELSE IF lo = hi THEN crc16_step(data[lo], crc)
  ELSE LET mid  == (lo + hi) \div 2
           left == crc16_range(data, lo, mid, crc)
       IN IF left >= 0 THEN crc16_range(data, mid + 1, hi, left) ELSE left

crc16(data, crc) == crc16_range(data, 1, Len(data), crc % 65536)

\* frame[2:frlen - 2] as Python slices it (clamped to the buffer)
Slice(buf, lo, hi) == SubSeq(buf, lo + 1, Min(hi, Len(buf)))

\* variant: the checksum taken from the start of the frame, sync word included
eac3_rewrite_crc2_with_sync(frame, frlen) ==
  IF frlen < 6 THEN frame
  ELSE LET c == crc16(Slice(frame, 0, frlen - 2), 0)
       IN [frame EXCEPT ![frlen - 1] = (c \div 256) % 256,
                        ![frlen]     = c % 256]

eac3_rewrite_crc2_like_c(frame, frlen) ==
  IF frlen < 6 THEN frame
  ELSE LET c == crc16(Slice(frame, 2, frlen - 2), 0)
       IN [frame EXCEPT ![frlen - 1] = (c \div 256) % 256,
                        ![frlen]     = c % 256]

\* -------------------------------------------------------------------- bits

getbit(buf, bitoffset) ==
  LET idx == bitoffset \div 8
  IN IF idx >= Len(buf) THEN 0
     ELSE (buf[idx + 1] \div (2 ^ (7 - (bitoffset % 8)))) % 2

setbit(buf, bit, bitoffset) ==
  LET idx  == bitoffset \div 8
      mask == 2 ^ (7 - (bitoffset % 8))
  IN IF idx >= Len(buf) THEN buf
     ELSE LET old == (buf[idx + 1] \div mask) % 2
          IN IF bit # 0
             THEN [buf EXCEPT ![idx + 1] = @ + (1 - old) * mask]
             ELSE [buf EXCEPT ![idx + 1] = @ - old * mask]

\* the loop of getbits from step i on, v accumulated so far
RECURSIVE getbits_from(_, _, _, _, _)
getbits_from(buf, bitoffset, nbits, i, v) ==
  IF i >= nbits THEN v
  ELSE getbits_from(buf, bitoffset, nbits, i + 1, 2 * v + getbit(buf, bitoffset + i))

getbits(buf, bitoffset, nbits) == getbits_from(buf, bitoffset, nbits, 0, 0)

\* the loop of setbits from step i on
RECURSIVE setbits_from(_, _, _, _, _)
setbits_from(buf, bitoffset, nbits, value, i) ==
  IF i >= nbits THEN buf
  ELSE setbits_from(setbit(buf, (value \div (2 ^ (nbits - 1 - i))) % 2, bitoffset + i),
                    bitoffset, nbits, value, i + 1)

setbits(buf, bitoffset, nbits, value) == setbits_from(buf, bitoffset, nbits, value, 0)

\* ---------------------------------------------------------------------- IO

\* f.read(n) at file position pos: at most n bytes, fewer at end of file
read_exact(f, pos, n) == SubSeq(f, pos + 1, Min(pos + n, Len(f)))

\* what read_frame hands back: a frame, end of stream, or a raised exception
\* (status is "frame", "eof", or the exception's class name)
FrameResult(fr, frame_len, kind, newpos) ==
  [status |-> "frame", fr |-> fr, frlen |-> frame_len, kind |-> kind,
   pos |-> newpos, msg |-> ""]

EofResult(pos) ==
  [status |-> "eof", fr |-> <<>>, frlen |-> 0, kind |-> "", pos |-> pos, msg |-> ""]

Raise(class, msg, pos) ==
  [status |-> class, fr |-> <<>>, frlen |-> 0, kind |-> "", pos |-> pos, msg |-> msg]

\* variant: a short tail read is not detected, the partial frame is returned
read_tail_unchecked(f, pos, head, frame_len, kind) ==
  LET tail == read_exact(f, pos + 6, frame_len - 6)
  IN FrameResult(head \o tail, frame_len, kind, pos + 6 + Len(tail))

\* the tail read of read_frame, once the header gave frame_len and kind
read_tail(f, pos, head, frame_len, kind) ==
  LET tail == read_exact(f, pos + 6, frame_len - 6)
  IN IF Len(tail) # frame_len - 6
     THEN Raise("PatchError", "Unexpected EOF (truncated frame)", pos + 6 + Len(tail))
     ELSE FrameResult(head \o tail, frame_len, kind, pos + frame_len)

read_frame(f, pos) ==
  LET head == read_exact(f, pos, 6)
  IN IF Len(head) = 0 THEN EofResult(pos)
     ELSE IF Len(head) < 6
     THEN Raise("PatchError", "Unexpected EOF (short header)", pos + Len(head))
     ELSE IF head[1] # 11 \/ head[2] # 119
     THEN Raise("PatchError", "Bad syncword (expected 0x0B 0x77)", pos + 6)
     ELSE LET bsid == head[6] \div 8
          IN IF bsid < 10
             THEN LET frmsizecod == head[5]
                  IN IF frmsizecod >= Len(fsizetable)
                     THEN Raise("IndexError", "list index out of range", pos + 6)
                     ELSE LET frame_len == fsizetable[frmsizecod + 1] * 2
                          IN IF frame_len = 0
                             THEN Raise("PatchError", "Invalid AC-3 frmsizecod", pos + 6)
                             ELSE read_tail(f, pos, head, frame_len, "ac3")
             ELSE LET frame_len == (256 * (head[3] % 8) + head[4]) * 2 + 2
                  IN IF frame_len < 10
                     THEN Raise("PatchError", "Invalid E-AC-3 frmsiz", pos + 6)
                     ELSE read_tail(f, pos, head, frame_len, "eac3")

\* ------------------------------------------------- E-AC-3 header positions

eac3_parse_positions(fr) ==
  LET strmtype     == getbits(fr, 16, 2)
      dialnorm_pos == 16 + 2 + 3 + 11 + 2 + 2 + 3 + 1 + 5
      compre_pos   == dialnorm_pos + 5
      compre       == getbits(fr, compre_pos, 1)
      compr_pos    == compre_pos + 1
  IN [strmtype     |-> strmtype,
      dialnorm_pos |-> dialnorm_pos,
      compre_pos   |-> compre_pos,
      compr_pos    |-> compr_pos,
      scan_start   |-> IF compre = 1 THEN compr_pos + 8 ELSE compr_pos]

\* ------------------------------------------------------- chanmap detector

\* variant: the scan runs to the end of the frame, extra_bits ignored
scan_end_uncapped(fr, start) == Len(fr) * 8 - 17

\* end = min(len(fr) * 8 - 17, start + extra_bits)
scan_end(fr, start) == Min(Len(fr) * 8 - 17, start + EXTRA_BITS)

\* the offsets p of one sample frame at which the scan loop records a value
\* (empty for a frame the loop skips)
frame_hits(fr) ==
  IF (fr[6] \div 8) < 10 THEN {}
  ELSE LET info == eac3_parse_positions(fr)
       IN IF info.strmtype # 1 THEN {}
          ELSE {p \in info.scan_start .. (scan_end(fr, info.scan_start) - 1) :
                  /\ getbit(fr, p) = 1
                  /\ getbits(fr, p + 1, 16) \notin {0, 65535}}

\* a finite set of integers as the ascending sequence (range() order)
RECURSIVE Ascending(_)
Ascending(S) ==
  IF S = {} THEN <<>>
  ELSE LET m == CHOOSE x \in S : \A y \in S : x <= y
       IN <<m>> \o Ascending(S \ {m})

SeqRange(s) == {s[i] : i \in 1..Len(s)}

\* the keys of pos_hist in insertion order after the first n sample frames
RECURSIVE hist_keys(_, _)
hist_keys(samples, n) ==
  IF n = 0 THEN <<>>
  ELSE LET before == hist_keys(samples, n - 1)
       IN before \o Ascending({p + 1 : p \in frame_hits(samples[n])} \ SeqRange(before))

\* pos_hist[pos] as the bag of values recorded at pos: v -> count
pos_hist(samples, pos) ==
  LET at == {i \in 1..Len(samples) : (pos - 1) \in frame_hits(samples[i])}
      vs == {getbits(samples[i], pos, 16) : i \in at}
  IN [v \in vs |-> Cardinality({i \in at : getbits(samples[i], pos, 16) = v})]

hist_total(hist) ==
  LET RECURSIVE sum(_)
      sum(S) == IF S = {} THEN 0
                ELSE LET v == CHOOSE x \in S : TRUE IN hist[v] + sum(S \ {v})
  IN sum(DOMAIN hist)

hist_top(hist) ==
  CHOOSE c \in {hist[v] : v \in DOMAIN hist} : \A v \in DOMAIN hist : hist[v] <= c

\* score = total * (top / total) ** 2 = top * top / total, kept as the exact
\* fraction <<top * top, total>>
score(hist) == <<hist_top(hist) * hist_top(hist), hist_total(hist)>>

\* a > b on two such fractions (denominators positive)
score_gt(a, b) == a[1] * b[2] > b[1] * a[2]

\* the selection loop over pos_hist.items() from key index i on
RECURSIVE best_from(_, _, _, _, _)
best_from(samples, keys, i, best_pos, best_score) ==
  IF i > Len(keys) THEN best_pos
  ELSE LET sc == score(pos_hist(samples, keys[i]))
       IN IF score_gt(sc, best_score)
          THEN best_from(samples, keys, i + 1, keys[i], sc)
          ELSE best_from(samples, keys, i + 1, best_pos, best_score)

find_chanmap_bitpos(samples) ==
  LET keys == hist_keys(samples, Len(samples))
  IN IF keys = <<>> THEN None
     ELSE best_from(samples, keys, 1, None, <<-1, 1>>)

\* ------------------------------------------------------------- patch pass

\* the body of the patch loop for one E-AC-3 frame: the bytes written
patch_eac3(fr, frlen, chanmap_pos) ==
  LET info == eac3_parse_positions(fr)
      f1   == setbits(fr, info.compre_pos, 1, 1)
      f2   == setbits(f1, info.compr_pos, 8, 255)
      f3   == IF info.strmtype = 1
              THEN setbits(f2, chanmap_pos, 16, DEFAULT_CHANMAP)
              ELSE f2
  IN eac3_rewrite_crc2_like_c(f3, frlen)

\* what the patch loop writes for a frame read_frame returned
patch_frame(fr, frlen, kind, chanmap_pos) ==
  IF kind = "ac3" THEN fr ELSE patch_eac3(fr, frlen, chanmap_pos)

\* ------------------------------------------------------------------ inputs

\* the most frames an input file is built from
MaxFrames == 2

\* an E-AC-3 frame of len bytes: sync, strmtyp in bits 16..17, frmsiz from len,
\* bsid 16, and the bytes given by `body` (0-based byte index -> value), else 0
Eac3(len, strmtyp, body) ==
  [i \in 1..len |->
     CASE i = 1 -> 11
       [] i = 2 -> 119
       [] i = 3 -> strmtyp * 64 + (((len - 2) \div 2) \div 256)
       [] i = 4 -> ((len - 2) \div 2) % 256
       [] i = 6 -> 128
       [] OTHER -> IF (i - 1) \in DOMAIN body THEN body[i - 1] ELSE 0]

\* an AC-3 frame of len bytes with size code `code`, bsid 8
Ac3(len, code, body) ==
  [i \in 1..len |->
     CASE i = 1 -> 11
       [] i = 2 -> 119
       [] i = 5 -> code
       [] i = 6 -> 64
       [] OTHER -> IF (i - 1) \in DOMAIN body THEN body[i - 1] ELSE 0]

\* dependent, compre = 0, presence bit at 51: one candidate, offset 52
DepEarly == Eac3(10, 1, (6 :> 16) @@ (7 :> 1))
\* dependent, compre = 1, presence bit at 67: one candidate, offset 68
DepHigh  == Eac3(12, 1, (6 :> 32) @@ (8 :> 17))
\* dependent, compre = 1, presence bit at 59: one candidate, offset 60
DepLow   == Eac3(12, 1, (6 :> 32) @@ (7 :> 16) @@ (8 :> 2))
\* dependent, no bit set after the header: no candidate
DepBlank == Eac3(10, 1, <<>>)
\* independent substream
Indep    == Eac3(10, 0, (6 :> 16) @@ (7 :> 1) @@ (9 :> 7))
\* AC-3, size code 0: 128 bytes
Ac3Good  == Ac3(128, 0, (6 :> 85) @@ (7 :> 170) @@ (127 :> 9))
\* frames read_frame rejects
BadSync  == [Indep EXCEPT ![2] = 120]
Ac3Zero  == Ac3(8, 38, <<>>)
Ac3Past  == Ac3(8, 250, <<>>)
Eac3Tiny == Eac3(8, 1, <<>>)

GoodFrames == {DepEarly, DepHigh, DepLow, DepBlank, Indep, Ac3Good}
BadFrames  == {BadSync, Ac3Zero, Ac3Past, Eac3Tiny}
FrameSet   == GoodFrames \cup BadFrames

\* file contents: up to MaxFrames frames, or one long run of dependent frames
\* (more than the discovery loop samples)
SeqsUpTo(S, n) == UNION {[1..k -> S] : k \in 1..n}

ManyDeps == [i \in 1..(SAMPLE_LIMIT + 1) |-> IF i = 2 THEN DepHigh ELSE DepLow]

\* bytes missing at the end of the file (0: the file is whole)
CutSet == {0, 2, 7}

RECURSIVE Flatten(_)
Flatten(chunks) ==
  IF chunks = <<>> THEN <<>> ELSE Head(chunks) \o Flatten(Tail(chunks))

\* ------------------------------------------------------------------- state

VARIABLES
  input,         \* the bytes of the file at in_path
  given,         \* the bytes that file held at entry to the run
  srcFrames,     \* the frames those bytes were assembled from
  same_file,     \* out_path names the file at in_path (by another spelling
                 \* or a hard link: main compares the two strings only)
  pc,            \* "discover", "detect", "patch", "done" or "failed"
  pos,           \* fin's file position
  reads,         \* what read_frame returned, call by call, in the current pass
  samples,
  chanmap_pos,
  out,           \* the chunks written to fout, in order
  outOpen,       \* whether out_path has been opened for writing
  total_frames,
  ac3_count,
  eac3_count,
  patched_eac3,
  err,           \* <<exception class, message>> once the run has failed
  run,           \* 1: first run; 2: the run over the first run's output
  prev           \* the first run's output and statistics, in the second run

vars == <<input, given, srcFrames, same_file, pc, pos, reads, samples, chanmap_pos, out, outOpen,
          total_frames, ac3_count, eac3_count, patched_eac3, err, run, prev>>

NoPrev == [out |-> <<>>, patched_eac3 |-> 0, chanmap_pos |-> None, same_file |-> FALSE]

\* the state at entry to patch_file(in_path, out_path); main has found the two
\* path strings different
Start(file, frames, alias) ==
  /\ input = file
  /\ given = file
  /\ srcFrames = frames
  /\ same_file = alias
  /\ pc = "discover"
  /\ pos = 0
  /\ reads = <<>>
  /\ samples = <<>>
  /\ chanmap_pos = None
  /\ out = <<>>
  /\ outOpen = FALSE
  /\ total_frames = 0
  /\ ac3_count = 0
  /\ eac3_count = 0
  /\ patched_eac3 = 0
  /\ err = <<"", "">>

InitFrom(streams, cuts, aliases) ==
  \E frames \in streams, cut \in cuts, alias \in aliases :
    /\ cut < Len(frames[Len(frames)])
    /\ Start(SubSeq(Flatten(frames), 1, Len(Flatten(frames)) - cut), frames, alias)
    /\ run = 1
    /\ prev = NoPrev

Init == InitFrom(SeqsUpTo(FrameSet, MaxFrames) \cup {ManyDeps}, CutSet, BOOLEAN)

\* one iteration of the discovery loop
Discover ==
  /\ pc = "discover"
  /\ LET r == read_frame(input, pos)
     IN /\ reads' = Append(reads, r)
        /\ pos' = r.pos
        /\ IF r.status = "eof"
           THEN /\ pc' = "detect"
                /\ UNCHANGED <<samples, err>>
           ELSE IF r.status = "frame"
           THEN LET dep == r.kind = "eac3" /\ eac3_parse_positions(r.fr).strmtype = 1
                    s2  == IF dep THEN Append(samples, r.fr) ELSE samples
                IN /\ samples' = s2
                   /\ pc' = IF Len(s2) < SAMPLE_LIMIT THEN "discover" ELSE "detect"
                   /\ err' = err
           ELSE /\ pc' = "failed"
                /\ err' = <<r.status, r.msg>>
                /\ UNCHANGED samples
  /\ UNCHANGED <<input, given, srcFrames, same_file, chanmap_pos, out, outOpen,
                 total_frames, ac3_count, eac3_count, patched_eac3, run, prev>>

\* variant: out_path opened before the detector's result is looked at
opens_output_first(c) == TRUE

\* whether patch_file gets to open(out_path, "wb") with the detector's result c
opens_output(c) == c # None

\* the detector call, and the opening of both files for the patch pass:
\* open(in_path, "rb"), then open(out_path, "wb"), which empties the file
\* out_path names; when that is the file at in_path, fin reads an empty file
Detect ==
  /\ pc = "detect"
  /\ LET c == find_chanmap_bitpos(samples)
     IN /\ chanmap_pos' = c
        /\ IF c = None
           THEN /\ pc' = "failed"
                /\ err' = <<"PatchError",
                            "Could not detect the chanmap location in dependent E-AC-3 frames.">>
                /\ UNCHANGED <<pos, reads, out>>
           ELSE /\ pc' = "patch"
                /\ pos' = 0
                /\ reads' = <<>>
                /\ out' = <<>>
                /\ err' = err
        /\ outOpen' = opens_output(c)
        /\ input' = IF opens_output(c) /\ same_file THEN <<>> ELSE input
  /\ UNCHANGED <<given, srcFrames, same_file, samples, total_frames, ac3_count,
                 eac3_count, patched_eac3, run, prev>>

\* one iteration of the patch loop
Patch ==
  /\ pc = "patch"
  /\ LET r == read_frame(input, pos)
     IN /\ reads' = Append(reads, r)
        /\ pos' = r.pos
        /\ IF r.status = "eof"
           THEN /\ pc' = "done"
                /\ UNCHANGED <<out, total_frames, ac3_count, eac3_count, patched_eac3, err>>
           ELSE IF r.status = "frame"
           THEN /\ pc' = "patch"
                /\ total_frames' = total_frames + 1
                /\ ac3_count' = IF r.kind = "ac3" THEN ac3_count + 1 ELSE ac3_count
                /\ eac3_count' = IF r.kind = "ac3" THEN eac3_count ELSE eac3_count + 1
                /\ patched_eac3' = IF r.kind = "ac3" THEN patched_eac3 ELSE patched_eac3 + 1
                /\ out' = Append(out, patch_frame(r.fr, r.frlen, r.kind, chanmap_pos))
                /\ err' = err
           ELSE /\ pc' = "failed"
                /\ err' = <<r.status, r.msg>>
                /\ UNCHANGED <<out, total_frames, ac3_count, eac3_count, patched_eac3>>
  /\ UNCHANGED <<input, given, srcFrames, same_file, samples, chanmap_pos, outOpen,
                 run, prev>>

\* main() invoked again, with the first run's output file as its input
Rerun ==
  /\ pc = "done"
  /\ run = 1
  /\ run' = 2
  /\ given' = Flatten(out)
  /\ same_file' \in BOOLEAN
  /\ prev' = [out |-> out, patched_eac3 |-> patched_eac3, chanmap_pos |-> chanmap_pos,
               same_file |-> same_file]
  /\ input' = Flatten(out)
  /\ srcFrames' = out
  /\ pc' = "discover"
  /\ pos' = 0
  /\ reads' = <<>>
  /\ samples' = <<>>
  /\ chanmap_pos' = None
  /\ out' = <<>>
  /\ outOpen' = FALSE
  /\ total_frames' = 0
  /\ ac3_count' = 0
  /\ eac3_count' = 0
  /\ patched_eac3' = 0
  /\ err' = <<"", "">>

Next == Discover \/ Detect \/ Patch \/ Rerun

Spec == Init /\ [][Next]_vars

\* the same run over files built from long frames: frames whose bit length
\* exceeds scan_start + extra_bits + 17, with presence bits on either side of
\* the detector's scan limit
WideLen == 2 * 134

\* presence bit at 59 only: one candidate, offset 60
WideNear    == Eac3(WideLen, 1, (6 :> 32) @@ (7 :> 16) @@ (8 :> 2))
\* presence bits at 2111, 2115: candidates only past scan_start + extra_bits
WideFar     == Eac3(WideLen, 1, (6 :> 32) @@ (263 :> 1) @@ (264 :> 18))
\* presence bit at 2106, the last offset scanned (and 2115, past the limit)
WideEdgeIn  == Eac3(WideLen, 1, (6 :> 32) @@ (263 :> 32) @@ (264 :> 18))
\* presence bit at 2107, the first offset not scanned
WideEdgeOut == Eac3(WideLen, 1, (6 :> 32) @@ (263 :> 16) @@ (264 :> 18))
\* presence bits at 59 and at 2111
WideBoth    == Eac3(WideLen, 1, (6 :> 32) @@ (7 :> 16) @@ (8 :> 2) @@ (263 :> 1) @@ (264 :> 18))

WideFrameSet == {WideNear, WideFar, WideEdgeIn, WideEdgeOut, WideBoth, DepLow}

InitWide == InitFrom(SeqsUpTo(WideFrameSet, MaxFrames), {0}, BOOLEAN)

SpecWide == InitWide /\ [][Next]_vars

\* ------------------------------------------------------------------ claims

\* the frames of the input, classified from their own header bytes
IsAc3(fr)       == (fr[6] \div 8) < 10
IsDependent(fr) == ~IsAc3(fr) /\ (fr[3] \div 64) = 1

\* bytes cut off the end of the input file as the run was given it
Missing == Len(Flatten(srcFrames)) - Len(given)

\* the frames the file at in_path holds now, and the bytes cut off its end
\* (the file is as given, or has been emptied)
Held        == IF input = given THEN srcFrames ELSE <<>>
HeldMissing == IF input = given THEN Missing ELSE 0

\* the bits of an E-AC-3 frame the patch pass may change: bit 50, bits 51..58,
\* the 16 bits at the detected offset (dependent frames), the last two bytes
MayChange(src, q) ==
  \/ q = 50
  \/ q \in 51..58
  \/ IsDependent(src) /\ q \in chanmap_pos..(chanmap_pos + 15)
  \/ q >= 8 * (Len(src) - 2)

\* C1: the frames written are the input's frames in order and of the same
\* lengths; an AC-3 frame is written unchanged, an E-AC-3 frame differs from its
\* input frame at most in the targeted bits and its last two bytes; a run that
\* succeeds has written as many frames as the input holds.
C1_OnlyTargetedBitsChange ==
  /\ Len(out) <= Len(srcFrames)
  /\ pc = "done" => Len(out) = Len(srcFrames)
  /\ \A i \in 1..Len(out) :
       /\ Len(out[i]) = Len(srcFrames[i])
       /\ IF IsAc3(srcFrames[i])
          THEN out[i] = srcFrames[i]
          ELSE \A q \in 0..(8 * Len(out[i]) - 1) :
                 getbit(out[i], q) # getbit(srcFrames[i], q) => MayChange(srcFrames[i], q)

\* the same with out_path naming a file other than the one at in_path
C1_WithDistinctFiles == ~same_file => C1_OnlyTargetedBitsChange

\* C2: every E-AC-3 frame written has bit 50 set and bits 51..58 equal to 0xFF.
C2_CompressionForced ==
  \A i \in 1..Len(out) :
    ~IsAc3(out[i]) => getbit(out[i], 50) = 1 /\ getbits(out[i], 51, 8) = 255

\* C3: every dependent E-AC-3 frame written reads 0x1A00 at the detected offset.
C3_ChanmapWritten ==
  \A i \in 1..Len(out) :
    IsDependent(out[i]) => getbits(out[i], chanmap_pos, 16) = 6656

\* the CRC of the claim, bit by bit: MSB first, not reflected, polynomial 0x8005
RECURSIVE BitwiseCrc(_, _, _, _)
BitwiseCrc(data, q, nbitsTotal, reg) ==
  IF q >= nbitsTotal THEN reg
  ELSE LET top     == (reg \div 32768) % 2
           shifted == (reg * 2) % 65536
           fed     == IF top # getbit(data, q) THEN Xor(shifted, 32773) ELSE shifted
       IN IF fed >= 0 THEN BitwiseCrc(data, q + 1, nbitsTotal, fed) ELSE fed

\* C4: every E-AC-3 frame written ends in the big-endian CRC16 (seed 0) of its
\* bytes [2, L-2).
C4_ChecksumValid ==
  \A i \in 1..Len(out) :
    ~IsAc3(out[i]) =>
      LET L    == Len(out[i])
          body == SubSeq(out[i], 3, L - 2)
      IN out[i][L - 1] * 256 + out[i][L] = BitwiseCrc(body, 0, 8 * Len(body), 0)

\* an E-AC-3 frame has been written whose checksum bytes differ from the input's
C4_Witness ==
  \E i \in 1..Len(out) :
    /\ ~IsAc3(out[i])
    /\ SubSeq(out[i], Len(out[i]) - 1, Len(out[i]))
         # SubSeq(srcFrames[i], Len(out[i]) - 1, Len(out[i]))

\* C5: the run over the first run's output succeeds, writes that output again
\* byte for byte, and reports the same patched_eac3 count (stated for runs whose
\* out_path names a file other than the one at in_path, in both runs).
C5_Idempotent ==
  (run = 2 /\ pc \in {"done", "failed"} /\ ~prev.same_file /\ ~same_file) =>
    /\ pc = "done"
    /\ Flatten(out) = Flatten(prev.out)
    /\ patched_eac3 = prev.patched_eac3

\* the length a frame's own header declares, 0 when the header is not valid
\* (sync word, AC-3 size code with a non-zero table entry, E-AC-3 frmsiz)
DeclaredLen(fr) ==
  IF Len(fr) < 6 \/ fr[1] # 11 \/ fr[2] # 119 THEN 0
  ELSE IF IsAc3(fr)
       THEN IF (fr[5] + 1) \in DOMAIN fsizetable THEN 2 * fsizetable[fr[5] + 1] ELSE 0
       ELSE 2 * (256 * (fr[3] % 8) + fr[4]) + 2

WellFormed(fr) == DeclaredLen(fr) >= 10 /\ Len(fr) = DeclaredLen(fr)

\* the number of leading frames, among the first n of `frames`, that are
\* well-formed and wholly present in a file that lacks `missing` bytes at its end
RECURSIVE GoodPrefix(_, _, _)
GoodPrefix(frames, missing, n) ==
  IF n = 0 THEN 0
  ELSE LET g == GoodPrefix(frames, missing, n - 1)
       IN IF /\ g = n - 1
             /\ WellFormed(frames[n])
             /\ (n < Len(frames) \/ missing = 0)
          THEN n ELSE g

Whole     == GoodPrefix(srcFrames, Missing, Len(srcFrames))
HeldWhole == GoodPrefix(Held, HeldMissing, Len(Held))

\* C6: over a file that is a concatenation of well-formed frames, the k-th
\* read_frame call of a pass returns the k-th frame, byte-identical, with its
\* declared length and its kind; the call after the last frame reports end of
\* stream; when the file ends inside its last frame (in its header or in its
\* body) the call reading it raises a framing error and never reports end of
\* stream.
C6_SequentialReads ==
  (\A n \in 1..Len(Held) : WellFormed(Held[n])) =>
    /\ Len(reads) <= HeldWhole + 1
    /\ \A k \in 1..Len(reads) :
         IF k <= HeldWhole
         THEN /\ reads[k].status = "frame"
              /\ reads[k].fr = Held[k]
              /\ reads[k].frlen = DeclaredLen(Held[k])
              /\ reads[k].kind = (IF IsAc3(Held[k]) THEN "ac3" ELSE "eac3")
         ELSE IF HeldMissing = 0
              THEN reads[k].status = "eof"
              ELSE /\ reads[k].status = "PatchError"
                   /\ reads[k].msg = (IF Len(Held[k]) - HeldMissing < 6
                                      THEN "Unexpected EOF (short header)"
                                      ELSE "Unexpected EOF (truncated frame)")

\* a pass has read two frames of different kinds and then end of stream
C6_Witness ==
  /\ Len(Held) = 2
  /\ Len(reads) = 3
  /\ reads[1].status = "frame" /\ reads[2].status = "frame"
  /\ reads[1].kind # reads[2].kind
  /\ reads[3].status = "eof"

\* C7: what has been written is, at every moment, the patched form of the first
\* j input frames, whole frames only; nothing is written and out_path is not
\* opened before the detector has succeeded; a run that fails in the patch pass
\* at frame k has written exactly the k-1 frames before it.
C7_WholeFramePrefix ==
  /\ (pc \in {"discover", "detect"} \/ chanmap_pos = None) => (~outOpen /\ out = <<>>)
  /\ Len(out) <= Whole
  /\ \A i \in 1..Len(out) :
       out[i] = patch_frame(srcFrames[i], Len(srcFrames[i]),
                            IF IsAc3(srcFrames[i]) THEN "ac3" ELSE "eac3", chanmap_pos)
  /\ (pc = "failed" /\ outOpen) => (Len(out) = Whole /\ Whole < Len(srcFrames))

\* a run failed in the patch pass after writing a frame
C7_Witness ==
  /\ pc = "failed"
  /\ outOpen
  /\ Len(out) >= 1
  /\ Len(out) < Len(srcFrames)

\* the fractions total * (top/total)^2 of the recorded offsets
ScoreAt(offset) == score(pos_hist(samples, offset))

Recorded == SeqRange(hist_keys(samples, Len(samples)))

\* the offsets with the maximum score
TopScored == {k \in Recorded : \A j \in Recorded : ~score_gt(ScoreAt(j), ScoreAt(k))}

\* C8: the detector returns the numerically lowest of the offsets that share the
\* maximum score.
C8_LowestOfTies ==
  chanmap_pos # None => \A k \in TopScored : chanmap_pos <= k

\* C9: read_frame's only outcomes are a frame, end of stream or a PatchError;
\* a header with valid sync and bsid < 10 gives an AC-3 frame of 2 x table entry
\* bytes or one of the framing errors.
C9_ReadOutcomes ==
  \A k \in 1..Len(reads) :
    /\ reads[k].status \in {"frame", "eof", "PatchError"}
    /\ reads[k].kind = "ac3" => reads[k].frlen = 2 * fsizetable[reads[k].fr[5] + 1]

\* the detector has just returned: its result is in chanmap_pos, and the run
\* either stopped on it or is about to start the patch loop
Detected ==
  \/ pc = "patch" /\ reads = <<>>
  \/ pc = "failed" /\ err[2] = "Could not detect the chanmap location in dependent E-AC-3 frames."

\* the candidates <<sample index, presence-bit offset p>> that qualify (bit p
\* set, the 16 bits after it neither 0x0000 nor 0xFFFF) with p from scan_start
\* up to, not including, the smaller of 8 * len - 17 and `limit` past scan_start
Qualifying(limit) ==
  UNION {LET fr    == samples[i]
             start == eac3_parse_positions(fr).scan_start
             last  == Min(8 * Len(fr) - 17, start + limit) - 1
         IN {<<i, p>> : p \in {q \in start..last :
                                 /\ getbit(fr, q) = 1
                                 /\ getbits(fr, q + 1, 16) \notin {0, 65535}}}
         : i \in 1..Len(samples)}

\* total and top of the values the candidates of C record at presence bit p
TotalIn(C, p) == Cardinality({c \in C : c[2] = p})
CountIn(C, p, v) == Cardinality({c \in C : c[2] = p /\ getbits(samples[c[1]], p + 1, 16) = v})
TopIn(C, p) ==
  CHOOSE n \in 1..Len(samples) :
    /\ \E c \in C : c[2] = p /\ CountIn(C, p, getbits(samples[c[1]], p + 1, 16)) = n
    /\ \A c \in C : c[2] = p => CountIn(C, p, getbits(samples[c[1]], p + 1, 16)) <= n

\* score(p) >= score(q), with score = total * (top/total)^2 = top^2 / total
ScoreGeq(C, p, q) ==
  TopIn(C, p) * TopIn(C, p) * TotalIn(C, q) >= TopIn(C, q) * TopIn(C, q) * TotalIn(C, p)

\* the detector's result is None exactly when C is empty, and otherwise the
\* value offset p + 1 of a candidate of C whose score no candidate of C exceeds
ResultOver(C) ==
  /\ (chanmap_pos = None) <=> (C = {})
  /\ chanmap_pos # None =>
       \E c \in C : /\ chanmap_pos = c[2] + 1
                    /\ \A d \in C : ScoreGeq(C, c[2], d[2])

\* the bit length of the longest frame a file of this model holds
AnyLimit == 8 * WideLen

\* C10 as stated: the window of every sample frame is [scan_start, 8*len - 17).
C10_WholeWindow == Detected => \A C \in {Qualifying(AnyLimit)} : ResultOver(C)

\* C10 as the code has it: the window of every sample frame is
\* [scan_start, min(8*len - 17, scan_start + 2048)); offsets from
\* scan_start + 2048 on are never scored.
C10_CappedWindow == Detected => \A C \in {Qualifying(2048)} : ResultOver(C)

\* the detector chose an offset from samples that also hold a qualifying
\* candidate past scan_start + 2048
C10_Witness ==
  /\ Detected
  /\ chanmap_pos # None
  /\ Qualifying(AnyLimit) # Qualifying(2048)

====
